---------------------------- MODULE Spec2Model ----------------------------
(***************************************************************************)
(* civirt: provisioning and teardown of libvirt virtual machines.         *)
(*                                                                         *)
(* The model follows src/civirt/orchestrate.py (configuration compiler    *)
(* and batch executor), src/civirt/virtualmachine.py (provisioning record *)
(* and create/delete lifecycle) and src/civirt/network.py (network        *)
(* lookup).  Python dicts are functions whose DOMAIN is their key set,    *)
(* Python strings are strings (TLC concatenates them with \o), lists are  *)
(* sequences.  Nested mutable values whose identity matters (userdata,    *)
(* ssh_keys, nameservers) are references into a heap, a sequence of       *)
(* objects indexed by object id.                                          *)
(***************************************************************************)
EXTENDS Integers, Sequences, FiniteSets, TLC

VARIABLES
    config,     \* the parsed configuration document(s): common, import_common, vms
    docHeap,    \* the objects yaml.safe_load created for the document
    created,    \* history: the machines the latest create run took through every step
    conf,       \* executor: the compiled mapping, a sequence of <<key, settings>>
    action,     \* executor: "create" or "delete"
    idx,        \* executor: position of the loop over conf.items()
    vm,         \* executor: the local variable vm, <<>> while unbound, else <<record>>
    pc,         \* position of the control flow
    runs,       \* number of executor invocations so far
    dirs,       \* file system: existing directories
    files,      \* file system: existing regular files
    defined,    \* hypervisor: names of the defined domains
    running,    \* hypervisor: names of the running domains
    attached,   \* hypervisor: <<domain, iso path>> attachments
    metadata,   \* hypervisor: domains carrying the civirt metadata
    domainxml,  \* self.domainxml: <<>> before create_vm, else <<has a mac address>>
    volIdx,     \* delete: position of the loop over self.volumes
    volIncr,    \* delete: vol_incr
    steps,      \* the steps the current create/delete has passed
    calls,      \* the mutating external commands the current create/delete issued
    log,        \* the log lines of the current executor invocation
    processed,  \* the conf positions the current executor invocation has handled
    heap,       \* compile check: the objects of the parsed document and its copies
    in1,        \* pure-function checks: first input
    in2,        \* pure-function checks: second input
    out         \* pure-function checks: results

vars == <<config, docHeap, created, conf, action, idx, vm, pc, runs, dirs, files, defined, running,
          attached, metadata, domainxml, volIdx, volIncr, steps, calls, log,
          processed, heap, in1, in2, out>>

-----------------------------------------------------------------------------
(* Bounds of the model *)

\* executor invocations in one behaviour
MaxRuns == 2
\* machines in the `vms` list of a document
MaxVms == 2
\* length of the network and host names drawn for the name check
MaxLen == 2
\* length of the volume lists drawn for the volume-naming check
MaxVols == 3

-----------------------------------------------------------------------------
(* Python dict helpers *)

\* d.get(k, default)
Get(d, k, default) == IF k \in DOMAIN d THEN d[k] ELSE default

\* {**a, **b} and a.update(b): every key of b overwrites the same key of a
Update(a, b) ==
    [k \in DOMAIN a \cup DOMAIN b |-> IF k \in DOMAIN b THEN b[k] ELSE a[k]]

\* the empty dict
EmptyDict == [k \in {} |-> 0]

\* keys whose values are mutable containers held by reference
RefKeys == <<"userdata", "ssh_keys", "nameservers">>


-----------------------------------------------------------------------------
(* orchestrate.py: the configuration compiler *)

\* copy.deepcopy of a dict: every container value is copied into a fresh object
\* (scalars, strings and the volume list are modelled by value)
RECURSIVE DeepCopyKeys(_, _, _)
DeepCopyKeys(keys, d, h) ==
    IF keys = <<>> THEN [d |-> d, h |-> h]
    ELSE LET k == Head(keys) IN
         IF k \in DOMAIN d
         THEN DeepCopyKeys(Tail(keys), [d EXCEPT ![k] = Len(h) + 1], Append(h, h[d[k]]))
         ELSE DeepCopyKeys(Tail(keys), d, h)

\* copy.copy of a dict: a new dict whose container values are the same objects
ShallowCopy(d, h) == [d |-> d, h |-> h]

DeepCopy(d, h) == DeepCopyKeys(RefKeys, d, h)

\* the key under which a machine is stored: vm.get('hostname'), None when absent
VmKey(v) == Get(v, "hostname", "None")

\* position of key k in the ordered mapping m, 0 when absent
RECURSIVE KeyIndex(_, _)
KeyIndex(m, k) ==
    IF m = <<>> THEN 0
    ELSE IF m[Len(m)][1] = k THEN Len(m)
    ELSE KeyIndex(SubSeq(m, 1, Len(m) - 1), k)

\* compiledconfig.update({k: v}): an existing key keeps its place and takes the
\* new value, a new key is appended
DictPut(m, k, v) ==
    IF KeyIndex(m, k) = 0 THEN Append(m, <<k, v>>)
    ELSE [m EXCEPT ![KeyIndex(m, k)] = <<k, v>>]

\* the merge with the imported common block laid over the local one
CommonSettingsImportedLast(cfg) ==
    LET common_settings == Get(cfg, "common", EmptyDict) IN
    IF "import_common" \in DOMAIN cfg
    THEN Update(common_settings, Get(cfg.import_common, "common", EmptyDict))
    ELSE common_settings

\* the merged common block: imported common first, local common over it
CommonSettings(cfg) ==
    LET common_settings == Get(cfg, "common", EmptyDict) IN
    IF "import_common" \in DOMAIN cfg
    THEN Update(Get(cfg.import_common, "common", EmptyDict), common_settings)
    ELSE common_settings

\* the settings of one machine: a deep copy of the common block, updated with
\* the machine's own map
VmSettings(common_settings, v, h) ==
    LET cp == DeepCopy(common_settings, h) IN
    [d |-> Update(cp.d, v), h |-> cp.h]

\* the loop over config['vms']
RECURSIVE CompileVms(_, _, _, _)
CompileVms(vms, common_settings, compiledconfig, h) ==
    IF vms = <<>> THEN [conf |-> compiledconfig, h |-> h]
    ELSE LET v  == Head(vms)
             vs == VmSettings(common_settings, v, h)
         IN CompileVms(Tail(vms), common_settings,
                       DictPut(compiledconfig, VmKey(v), vs.d), vs.h)

\* _prepareconfig(file): the compiled mapping and the heap after compilation
PrepareConfig(cfg, h) == CompileVms(cfg.vms, CommonSettings(cfg), <<>>, h)

-----------------------------------------------------------------------------
(* network.py and the libvirt networks of the host *)

\* the <domain> elements of each libvirt network's XML, each a dict of attributes
LibvirtNetworks ==
    [default |-> << [name |-> "lan"] >>,
     lab     |-> << [name |-> "lab"] >>,
     nodom   |-> << >>,
     anon    |-> << EmptyDict >>]

\* Network.get_info: fails for an unknown network and when the XML has no
\* <domain> element (the local `domain` is then unbound); domain is <<>> for
\* None, else <<name>>
NetworkGetInfo(name) ==
    IF name \notin DOMAIN LibvirtNetworks THEN [ok |-> FALSE, domain |-> <<>>]
    ELSE LET doms == LibvirtNetworks[name] IN
         IF doms = <<>> THEN [ok |-> FALSE, domain |-> <<>>]
         ELSE [ok |-> TRUE,
               domain |-> IF "name" \in DOMAIN doms[1] THEN <<doms[1].name>> ELSE <<>>]

\* get_net falling back to `.local` where the lookup gives no domain
GetNetWithoutCheck(network) ==
    LET net_infos == NetworkGetInfo(network) IN
    IF ~net_infos.ok \/ net_infos.domain = <<>> \/ net_infos.domain = <<"">>
    THEN [ok |-> TRUE, domain |-> ".local"]
    ELSE [ok |-> TRUE, domain |-> net_infos.domain[1]]

\* VirtualMachine.get_net: the domain of the network, or a failure
GetNet(network) ==
    LET net_infos == NetworkGetInfo(network) IN
    IF ~net_infos.ok \/ net_infos.domain = <<>> \/ net_infos.domain = <<"">>
    THEN [ok |-> FALSE, domain |-> ""]
    ELSE [ok |-> TRUE, domain |-> net_infos.domain[1]]

-----------------------------------------------------------------------------
(* virtualmachine.py: the provisioning record *)

\* the keys VirtualMachine.__init__ reads with settings[...]
RequiredKeys == {"hostname", "variant", "directory", "backingdisk", "size", "userdata"}

\* self.name
MachineName(network, hostname) == network \o "_" \o hostname

\* os.path.join(directory, f"{name}.qcow2") and os.path.join(directory, f"{name}.iso")
Qcow2Path(directory, name) == directory \o "/" \o name \o ".qcow2"
IsoPath(directory, name) == directory \o "/" \o name \o ".iso"

\* VirtualMachine.__init__, lines 37, 51 and 80: the name and the file paths
RecordIdentity(network, hostname, directory) ==
    LET name == MachineName(network, hostname) IN
    [name  |-> name,
     qcow2 |-> Qcow2Path(directory, name),
     iso   |-> IsoPath(directory, name)]

\* self.domain configured with a fallback to the network's domain
ResolvedDomainConfiguredFirst(configured, reported) ==
    IF configured # ".local" THEN configured ELSE reported

\* __init__, line 25, and get_net, line 207: self.domain is set from the settings
\* and then overwritten with the non-empty domain the network lookup returned
ResolvedDomain(configured, reported) == reported

\* VirtualMachine(settings): the record and the heap after the constructor's
\* injection into the userdata dict, or a failure that leaves the heap alone
VirtualMachineInit(settings, h) ==
    LET network == Get(settings, "network", "default")
        net     == GetNet(network)
    IN
    IF ~(RequiredKeys \subseteq DOMAIN settings) \/ ~net.ok
    THEN [ok |-> FALSE, h |-> h, self |-> EmptyDict]
    ELSE
    LET hostname == settings.hostname
        ident    == RecordIdentity(network, hostname, settings.directory)
        name     == ident.name
        domain   == ResolvedDomain(Get(settings, "domain", ".local"), net.domain)
        fqdn     == hostname \o "." \o domain
        \* settings.get('ssh_keys', []): the default is a fresh list
        hasKeys  == "ssh_keys" \in DOMAIN settings
        h1       == IF hasKeys THEN h ELSE Append(h, <<>>)
        ssh_keys == IF hasKeys THEN settings.ssh_keys ELSE Len(h1)
        userdata == settings.userdata
        hasNs    == "nameservers" \in DOMAIN settings /\ h[settings.nameservers] # <<>>
        \* [self.domain]
        h2       == Append(h1, <<domain>>)
        \* userdata_resolve
        resolve  == Update([domain |-> domain, searchdomains |-> Len(h2)],
                           IF hasNs THEN [nameservers |-> settings.nameservers]
                           ELSE EmptyDict)
        h3       == Append(h2, resolve)
        h4       == [h3 EXCEPT ![userdata] =
                        Update(@, [manage_resolv_conf  |-> TRUE,
                                   resolv_conf         |-> Len(h3),
                                   hostname            |-> hostname,
                                   fqdn                |-> fqdn,
                                   ssh_authorized_keys |-> ssh_keys])]
    IN [ok |-> TRUE, h |-> h4,
        self |-> [hostname  |-> hostname,
                  network   |-> network,
                  domain    |-> domain,
                  variant   |-> settings.variant,
                  cpu       |-> Get(settings, "cpu", 1),
                  mem       |-> Get(settings, "mem", 512),
                  volumes   |-> Get(settings, "volumes", <<>>),
                  ssh_keys  |-> ssh_keys,
                  userdata  |-> userdata,
                  directory |-> settings.directory,
                  name      |-> name,
                  fqdn      |-> fqdn,
                  qcow2     |-> [bdisk |-> settings.backingdisk,
                                 size  |-> settings.size,
                                 path  |-> ident.qcow2],
                  metadata  |-> [instance_id |-> name, local_hostname |-> hostname],
                  isoPath   |-> ident.iso]]

-----------------------------------------------------------------------------
(* The hypervisor command surface and the instance probe *)

\* Instance.get_info(name) of civirt.libvirt: succeeds exactly for a defined domain
InstanceGetInfo(name, defs) == name \in defs

\* a gate that asks whether the instance runs
IsInstanceRunning(name, defs) == name \in running

\* VirtualMachine.is_instance_defined: True unless get_info raises
IsInstanceDefined(name, defs) == InstanceGetInfo(name, defs)

\* VirtualMachine.domain_is_defined: the exit code of `virsh dumpxml`,
\* 0 for a defined domain
DomainIsDefined(name, defs) == IF name \in defs THEN 0 ELSE 1

\* the condition of delete with the exit code read as a truth value of "defined"
NeedsCleanupWhenUndefined(name, defs) == DomainIsDefined(name, defs) # 0

\* delete: `if not VirtualMachine.domain_is_defined(self.name)`
NeedsCleanup(name, defs) == ~(DomainIsDefined(name, defs) # 0)

\* create_vm: a volume has no name when `not vol_name`
CreateUnnamed(vol) == "name" \notin DOMAIN vol \/ vol.name = ""

\* delete: a volume has no name when `vol_name is None`
DeleteUnnamed(vol) == "name" \notin DOMAIN vol

\* f"{vol_dir}/{vol_name}.qcow2"
VolPath(vol, directory, vol_name) ==
    Get(vol, "dir", directory) \o "/" \o vol_name \o ".qcow2"

\* f"{self.name}_disk{vol_incr}"
PositionalName(name, vol_incr) == name \o "_disk" \o ToString(vol_incr)

\* create_vm: the --disk paths of the extra volumes, in declaration order
RECURSIVE CreateVolPaths(_, _, _, _)
CreateVolPaths(volumes, directory, name, vol_incr) ==
    IF volumes = <<>> THEN <<>>
    ELSE LET vol == Head(volumes) IN
         IF CreateUnnamed(vol)
         THEN <<VolPath(vol, directory, PositionalName(name, vol_incr))>>
              \o CreateVolPaths(Tail(volumes), directory, name, vol_incr + 1)
         ELSE <<VolPath(vol, directory, "vol_" \o vol.name)>>
              \o CreateVolPaths(Tail(volumes), directory, name, vol_incr)

\* delete: the paths reconstructed for the volumes, <<>> for a volume it skips
RECURSIVE DeleteVolPaths(_, _, _, _)
DeleteVolPaths(volumes, directory, name, vol_incr) ==
    IF volumes = <<>> THEN <<>>
    ELSE LET vol == Head(volumes) IN
         IF DeleteUnnamed(vol)
         THEN << <<VolPath(vol, directory, PositionalName(name, vol_incr))>> >>
              \o DeleteVolPaths(Tail(volumes), directory, name, vol_incr + 1)
         ELSE << <<>> >> \o DeleteVolPaths(Tail(volumes), directory, name, vol_incr)

Range(seq) == {seq[i] : i \in DOMAIN seq}

-----------------------------------------------------------------------------
(* orchestrate.py: the batch executor *)

fsVars   == <<dirs, files>>
hvVars   == <<defined, running, attached, metadata>>
pureVars == <<in1, in2, out>>
loopVars == <<volIdx, volIncr>>

Self == vm[1]

\* executor, lines 83-85: the handler logs with vm.name and the loop goes on
OpFailed(why) ==
    /\ log' = Append(log, <<"exception", Self.name, action, why>>)
    /\ processed' = processed \cup {idx}
    /\ idx' = idx + 1
    /\ pc' = "loop"

\* executor, line 82
OpSuccessful(lines) ==
    /\ log' = log \o lines \o << <<"info", Self.name, action, "successful">> >>
    /\ processed' = processed \cup {idx}
    /\ idx' = idx + 1
    /\ pc' = "loop"

\* the step went through: the next step follows
Goto(next, lines) ==
    /\ log' = log \o lines
    /\ pc' = next
    /\ UNCHANGED <<processed, idx>>

\* executor(cfgfile, action), line 75: compile, then loop over conf.items()
Executor(a) ==
    /\ pc \in {"idle", "raised"}
    /\ runs < MaxRuns
    /\ LET c == PrepareConfig(config, docHeap) IN
       /\ conf' = c.conf
       /\ heap' = c.h
    /\ action' = a
    /\ idx' = 1
    /\ vm' = <<>>
    /\ pc' = "loop"
    /\ runs' = runs + 1
    /\ log' = <<>>
    /\ processed' = {}
    /\ steps' = <<>>
    /\ calls' = <<>>
    /\ domainxml' = <<>>
    /\ volIdx' = 1
    /\ volIncr' = 1
    /\ created' = IF a = "delete" /\ action = "create" THEN created ELSE {}
    /\ UNCHANGED <<config, docHeap, fsVars, hvVars, pureVars>>

\* executor, lines 76-79 and 83-85: build the record of the next machine; when
\* that fails the handler reads vm.name, which is the previous machine's record,
\* or raises out of executor while vm is still unbound
Construct ==
    /\ pc = "loop"
    /\ idx <= Len(conf)
    /\ LET r == VirtualMachineInit(conf[idx][2], heap) IN
       IF r.ok
       THEN /\ vm' = << r.self >>
            /\ heap' = r.h
            /\ pc' = action
            /\ UNCHANGED <<log, processed, idx>>
       ELSE /\ UNCHANGED <<vm, heap>>
            /\ IF vm = <<>>
               THEN /\ pc' = "raised"
                    /\ UNCHANGED <<log, processed, idx>>
               ELSE OpFailed("record")
    /\ steps' = <<>>
    /\ calls' = <<>>
    /\ domainxml' = <<>>
    /\ volIdx' = 1
    /\ volIncr' = 1
    /\ UNCHANGED <<config, docHeap, created, conf, action, runs, fsVars, hvVars, pureVars>>

\* executor: the loop is over, executor returns
ExecutorReturn ==
    /\ pc = "loop"
    /\ idx > Len(conf)
    /\ pc' = "idle"
    /\ UNCHANGED <<config, docHeap, created, conf, action, idx, vm, runs, fsVars, hvVars, domainxml,
                   loopVars, steps, calls, log, processed, heap, pureVars>>

-----------------------------------------------------------------------------
(* virtualmachine.py: create *)

stepVars == <<config, docHeap, created, conf, action, vm, runs, heap, pureVars, loopVars>>

\* create without the early return of the idempotency gate
CreateWithoutGate ==
    /\ pc = "create"
    /\ dirs' = dirs \cup {Self.directory}
    /\ Goto("create_disk", <<>>)
    /\ UNCHANGED <<stepVars, files, hvVars, domainxml, steps, calls>>

\* create going from the gate straight to create_vm
CreateSkipsDisk ==
    /\ pc = "create"
    /\ dirs' = dirs \cup {Self.directory}
    /\ IF IsInstanceDefined(Self.name, defined)
       THEN OpSuccessful(<< <<"info", Self.name, "already up and running">> >>)
       ELSE Goto("create_vm", <<>>)
    /\ UNCHANGED <<stepVars, files, hvVars, domainxml, steps, calls>>

\* create, lines 93-101: make the working directory, then the idempotency gate
Create ==
    /\ pc = "create"
    /\ dirs' = dirs \cup {Self.directory}
    /\ IF IsInstanceDefined(Self.name, defined)
       THEN OpSuccessful(<< <<"info", Self.name, "already up and running">> >>)
       ELSE Goto("create_disk", <<>>)
    /\ UNCHANGED <<stepVars, files, hvVars, domainxml, steps, calls>>

\* create_disk testing the overlay before the backing disk
CreateDiskOverlayFirst ==
    /\ pc = "create_disk"
    /\ IF Self.qcow2.path \in files
       THEN /\ Goto("create_vm", << <<"info", Self.name, "qcow2 already exists">> >>)
            /\ steps' = Append(steps, "DiskReady")
            /\ UNCHANGED <<files, calls>>
       ELSE IF Self.qcow2.bdisk \notin files
       THEN /\ OpFailed("BackingDiskException")
            /\ UNCHANGED <<files, steps, calls>>
       ELSE \E ok \in BOOLEAN :
            /\ calls' = Append(calls, <<"qemu-img create", Self.qcow2.bdisk, Self.qcow2.path,
                                        IF Self.qcow2.size # 0 THEN <<Self.qcow2.size>> ELSE <<>> >>)
            /\ IF ok
               THEN /\ files' = files \cup {Self.qcow2.path}
                    /\ steps' = Append(steps, "DiskReady")
                    /\ Goto("create_vm", << <<"info", Self.name, "created qcow2">> >>)
               ELSE /\ OpFailed("CalledProcessError")
                    /\ UNCHANGED <<files, steps>>
    /\ UNCHANGED <<stepVars, dirs, hvVars, domainxml>>

\* create_disk, lines 166-193
CreateDisk ==
    /\ pc = "create_disk"
    /\ IF Self.qcow2.bdisk \notin files
       THEN /\ OpFailed("BackingDiskException")
            /\ UNCHANGED <<files, steps, calls>>
       ELSE IF Self.qcow2.path \in files
       THEN /\ Goto("create_vm", << <<"info", Self.name, "qcow2 already exists">> >>)
            /\ steps' = Append(steps, "DiskReady")
            /\ UNCHANGED <<files, calls>>
       ELSE \E ok \in BOOLEAN :
            /\ calls' = Append(calls, <<"qemu-img create", Self.qcow2.bdisk, Self.qcow2.path,
                                        IF Self.qcow2.size # 0 THEN <<Self.qcow2.size>> ELSE <<>> >>)
            /\ IF ok
               THEN /\ files' = files \cup {Self.qcow2.path}
                    /\ steps' = Append(steps, "DiskReady")
                    /\ Goto("create_vm", << <<"info", Self.name, "created qcow2">> >>)
               ELSE /\ OpFailed("CalledProcessError")
                    /\ UNCHANGED <<files, steps>>
    /\ UNCHANGED <<stepVars, dirs, hvVars, domainxml>>

\* the hardware addresses virt-install may put into the domain XML, "" when the
\* XML has no <mac address=.../> element
MacAddresses == {"", "52:54:00:00:00:01", "52:54:00:00:00:02"}

\* create_vm, lines 226-287: virt-install --print-xml (which also allocates the
\* extra volumes it is given a size for), then virsh define of its output;
\* domainxml keeps whether the XML holds a hardware address, and the address
CreateVm ==
    /\ pc = "create_vm"
    /\ LET volPaths == CreateVolPaths(Self.volumes, Self.directory, Self.name, 1)
           install  == <<"virt-install", Self.name, <<Self.qcow2.path>> \o volPaths>>
       IN \E outcome \in {"xml_failed", "define_failed", "defined"} :
          \E mac \in IF outcome = "xml_failed" THEN {""} ELSE MacAddresses :
             IF outcome = "xml_failed"
             THEN /\ calls' = Append(calls, install)
                  /\ OpFailed("CalledProcessError")
                  /\ UNCHANGED <<files, defined, domainxml, steps>>
             ELSE /\ calls' = calls \o <<install, <<"virsh define", Self.name>> >>
                  /\ files' = files \cup Range(volPaths)
                  /\ domainxml' = IF mac = "" THEN <<FALSE>> ELSE <<TRUE, mac>>
                  /\ IF outcome = "defined"
                     THEN /\ defined' = defined \cup {Self.name}
                          /\ steps' = Append(steps, "DomainDefined")
                          /\ Goto("generate_netdata", << <<"info", Self.name, "defined">> >>)
                     ELSE /\ OpFailed("TypeError")
                          /\ UNCHANGED <<defined, steps>>
    /\ UNCHANGED <<stepVars, dirs, running, attached, metadata>>

\* generate_netdata, lines 315-322: the network-config put into the ISO
DhcpNetdata == [version |-> 2, ethernets |-> [eno1 |-> [dhcp4 |-> TRUE]]]

\* generate_netdata going on with the network-config when the XML has no
\* hardware address
GenerateNetdataWithoutMac ==
    /\ pc = "generate_netdata"
    /\ vm' = << Update(Self, [netdata |-> DhcpNetdata]) >>
    /\ steps' = Append(steps, "NetConfigGenerated")
    /\ Goto("create_iso", <<>>)
    /\ UNCHANGED <<config, docHeap, created, conf, action, runs, heap, pureVars, loopVars,
                   fsVars, hvVars, domainxml, calls>>

\* generate_netdata, lines 290-322: the address is searched in the XML and, once
\* found, not used
GenerateNetdata ==
    /\ pc = "generate_netdata"
    /\ IF domainxml[1]
       THEN /\ vm' = << Update(Self, [netdata |-> DhcpNetdata]) >>
            /\ steps' = Append(steps, "NetConfigGenerated")
            /\ Goto("create_iso", <<>>)
       ELSE /\ OpFailed("NoMacAddressException")
            /\ UNCHANGED <<vm, steps>>
    /\ UNCHANGED <<config, docHeap, created, conf, action, runs, heap, pureVars, loopVars,
                   fsVars, hvVars, domainxml, calls>>

\* create_iso, lines 324-359
CreateIso ==
    /\ pc = "create_iso"
    /\ calls' = Append(calls, <<"iso.write", Self.isoPath>>)
    /\ \E ok \in BOOLEAN :
          IF ok
          THEN /\ files' = files \cup {Self.isoPath}
               /\ steps' = Append(steps, "IsoBuilt")
               /\ Goto("attach_iso", << <<"info", Self.name, "created iso">> >>)
          ELSE /\ OpFailed("IOError")
               /\ UNCHANGED <<files, steps>>
    /\ UNCHANGED <<stepVars, dirs, hvVars, domainxml>>

\* attach_iso going on to start_vm when the attach command fails
AttachIsoIgnoresFailure ==
    /\ pc = "attach_iso"
    /\ calls' = Append(calls, <<"virsh attach-disk", Self.name, Self.isoPath>>)
    /\ \E ok \in BOOLEAN :
          IF ok
          THEN /\ attached' = attached \cup {<<Self.name, Self.isoPath>>}
               /\ steps' = Append(steps, "IsoAttached")
               /\ Goto("start_vm", << <<"info", Self.name, "attached iso">> >>)
          ELSE /\ Goto("start_vm", << <<"critical", Self.name, "attach failed">> >>)
               /\ UNCHANGED <<attached, steps>>
    /\ UNCHANGED <<stepVars, fsVars, defined, running, metadata, domainxml>>

\* attach_iso, lines 362-374
AttachIso ==
    /\ pc = "attach_iso"
    /\ calls' = Append(calls, <<"virsh attach-disk", Self.name, Self.isoPath>>)
    /\ \E ok \in BOOLEAN :
          IF ok
          THEN /\ attached' = attached \cup {<<Self.name, Self.isoPath>>}
               /\ steps' = Append(steps, "IsoAttached")
               /\ Goto("start_vm", << <<"info", Self.name, "attached iso">> >>)
          ELSE /\ OpFailed("CalledProcessError")
               /\ UNCHANGED <<attached, steps>>
    /\ UNCHANGED <<stepVars, fsVars, defined, running, metadata, domainxml>>

\* start_vm, lines 377-389
StartVm ==
    /\ pc = "start_vm"
    /\ calls' = Append(calls, <<"virsh start", Self.name>>)
    /\ \E ok \in BOOLEAN :
          IF ok
          THEN /\ running' = running \cup {Self.name}
               /\ steps' = Append(steps, "Started")
               /\ Goto("metadata_vm", << <<"info", Self.name, "started">> >>)
          ELSE /\ OpFailed("CalledProcessError")
               /\ UNCHANGED <<running, steps>>
    /\ UNCHANGED <<stepVars, fsVars, defined, attached, metadata, domainxml>>

\* metadata_vm re-raising the failure of the metadata command
MetadataVmRaises ==
    /\ pc = "metadata_vm"
    /\ calls' = Append(calls, <<"virsh metadata", Self.name>>)
    /\ \E ok \in BOOLEAN :
          IF ok
          THEN /\ metadata' = metadata \cup {Self.name}
               /\ steps' = Append(steps, "MetadataSynced")
               /\ created' = created \cup {Self.name}
               /\ OpSuccessful(<<>>)
          ELSE /\ OpFailed("CalledProcessError")
               /\ UNCHANGED <<metadata, steps, created>>
    /\ UNCHANGED <<config, docHeap, conf, action, vm, runs, heap, pureVars, loopVars,
                   fsVars, defined, running, attached, domainxml>>

\* metadata_vm, lines 408-440, then create returns to executor
MetadataVm ==
    /\ pc = "metadata_vm"
    /\ calls' = Append(calls, <<"virsh metadata", Self.name>>)
    /\ steps' = Append(steps, "MetadataSynced")
    /\ created' = created \cup {Self.name}
    /\ \E ok \in BOOLEAN :
          IF ok
          THEN /\ metadata' = metadata \cup {Self.name}
               /\ OpSuccessful(<<>>)
          ELSE /\ OpSuccessful(<< <<"warning", Self.name, "metadata not saved">> >>)
               /\ UNCHANGED metadata
    /\ UNCHANGED <<config, docHeap, conf, action, vm, runs, heap, pureVars, loopVars,
                   fsVars, defined, running, attached, domainxml>>

-----------------------------------------------------------------------------
(* virtualmachine.py: delete *)

\* delete, lines 129-133, and cleanup_libvirt, lines 443-459: destroy, whose
\* exit code is ignored, then undefine; the handler of a failed undefine calls
\* rstrip('\n') on the captured bytes, which raises
Delete ==
    /\ pc = "delete"
    /\ IF NeedsCleanup(Self.name, defined)
       THEN /\ running' = running \ {Self.name}
            /\ calls' = calls \o << <<"virsh destroy", Self.name>>,
                                    <<"virsh undefine", Self.name>> >>
            /\ \E ok \in BOOLEAN :
                  IF ok /\ Self.name \in defined
                  THEN /\ defined' = defined \ {Self.name}
                       /\ attached' = {a \in attached : a[1] # Self.name}
                       /\ metadata' = metadata \ {Self.name}
                       /\ steps' = Append(steps, "cleanup")
                       /\ Goto("delete_qcow2", << <<"info", Self.name, "undefined">> >>)
                  ELSE /\ OpFailed("TypeError")
                       /\ UNCHANGED <<defined, attached, metadata, steps>>
       ELSE /\ Goto("delete_qcow2", << <<"info", Self.name, "needs no cleanup">> >>)
            /\ UNCHANGED <<hvVars, calls, steps>>
    /\ UNCHANGED <<stepVars, fsVars, domainxml>>

\* delete_file logging a failed removal without re-raising it
RemoveIfFileIgnoringFailure(path, next, what) ==
    IF path \in files
    THEN /\ calls' = Append(calls, <<"os.remove", path>>)
         /\ \E ok \in BOOLEAN :
               IF ok
               THEN /\ files' = files \ {path}
                    /\ steps' = Append(steps, what)
                    /\ Goto(next, << <<"info", Self.name, "removed", path>> >>)
               ELSE /\ Goto(next, << <<"critical", Self.name, "exception removing", path>> >>)
                    /\ UNCHANGED <<files, steps>>
    ELSE /\ Goto(next, << <<"info", Self.name, "does not exist", path>> >>)
         /\ steps' = Append(steps, what)
         /\ UNCHANGED <<files, calls>>

\* delete_file, lines 394-406, for one path of delete: remove it if it is a file,
\* else log that it does not exist
RemoveIfFile(path, next, what) ==
    IF path \in files
    THEN /\ calls' = Append(calls, <<"os.remove", path>>)
         /\ \E ok \in BOOLEAN :
               IF ok
               THEN /\ files' = files \ {path}
                    /\ steps' = Append(steps, what)
                    /\ Goto(next, << <<"info", Self.name, "removed", path>> >>)
               ELSE /\ OpFailed("OSError")
                    /\ UNCHANGED <<files, steps>>
    ELSE /\ Goto(next, << <<"info", Self.name, "does not exist", path>> >>)
         /\ steps' = Append(steps, what)
         /\ UNCHANGED <<files, calls>>

\* delete, lines 135-139
DeleteQcow2 ==
    /\ pc = "delete_qcow2"
    /\ RemoveIfFile(Self.qcow2.path, "delete_iso", "qcow2")
    /\ UNCHANGED <<stepVars, dirs, hvVars, domainxml>>

\* delete, lines 141-145
DeleteIso ==
    /\ pc = "delete_iso"
    /\ RemoveIfFile(Self.isoPath, "delete_volumes", "iso")
    /\ UNCHANGED <<stepVars, dirs, hvVars, domainxml>>

\* delete, lines 147-159: one iteration of the loop over self.volumes
DeleteVolume ==
    /\ pc = "delete_volumes"
    /\ volIdx <= Len(Self.volumes)
    /\ LET vol == Self.volumes[volIdx] IN
       IF DeleteUnnamed(vol)
       THEN /\ RemoveIfFile(VolPath(vol, Self.directory, PositionalName(Self.name, volIncr)),
                            "delete_volumes", "volume")
            /\ volIncr' = volIncr + 1
       ELSE /\ Goto("delete_volumes", <<>>)
            /\ UNCHANGED <<files, calls, steps, volIncr>>
    /\ volIdx' = volIdx + 1
    /\ UNCHANGED <<config, docHeap, created, conf, action, vm, runs, heap, pureVars, dirs, hvVars, domainxml>>

\* delete, lines 161-164: os.listdir of the working directory, which raises when
\* the directory does not exist and never returns None, so rmdir is never called
DeleteDirectory ==
    /\ pc = "delete_volumes"
    /\ volIdx > Len(Self.volumes)
    /\ IF Self.directory \notin dirs
       THEN OpFailed("FileNotFoundError")
       ELSE OpSuccessful(<< <<"info", Self.name, "Successfully deleted">> >>)
    /\ UNCHANGED <<stepVars, fsVars, hvVars, domainxml, steps, calls>>

-----------------------------------------------------------------------------
(* The lifecycle specification: executor runs over a compiled document *)

\* sequences over S of length 1..n
SeqsUpTo(S, n) == UNION {[1..k -> S] : k \in 1..n}

\* the `common` blocks of the documents: complete, without `size`, and with
\* neither `size` nor `userdata`
LifecycleCommons ==
    {[variant |-> "debian", directory |-> "d", backingdisk |-> "base",
      userdata |-> 1, size |-> 10],
     [variant |-> "debian", directory |-> "d", backingdisk |-> "base",
      userdata |-> 1],
     [variant |-> "debian", directory |-> "d", backingdisk |-> "base"]}

\* the per-machine maps of the documents
LifecycleVms ==
    {[hostname |-> "a"],
     [hostname |-> "a", network |-> "lab", domain |-> "example.org",
      volumes |-> <<[size |-> 10], [name |-> "data", size |-> 20], [size |-> 30]>>],
     [hostname |-> "b", network |-> "nodom"],
     [hostname |-> "b", size |-> 0,
      volumes |-> <<[name |-> "", size |-> 10], [size |-> 30, dir |-> "e"]>>]}

LifecycleConfigs ==
    {[common |-> c, vms |-> v] : c \in LifecycleCommons, v \in SeqsUpTo(LifecycleVms, MaxVms)}

Init ==
    /\ config \in LifecycleConfigs
    /\ docHeap = << [timezone |-> "UTC"] >>
    /\ created = {}
    /\ conf = <<>>
    /\ action = "create"
    /\ idx = 1
    /\ vm = <<>>
    /\ pc = "idle"
    /\ runs = 0
    /\ dirs = {}
    /\ files \in {{}, {"base"}}
    /\ defined = {}
    /\ running = {}
    /\ attached = {}
    /\ metadata = {}
    /\ domainxml = <<>>
    /\ volIdx = 1
    /\ volIncr = 1
    /\ steps = <<>>
    /\ calls = <<>>
    /\ log = <<>>
    /\ processed = {}
    /\ heap = <<>>
    /\ in1 = <<>>
    /\ in2 = <<>>
    /\ out = <<>>

Next ==
    \/ \E a \in {"create", "delete"} : Executor(a)
    \/ Construct
    \/ ExecutorReturn
    \/ Create
    \/ CreateDisk
    \/ CreateVm
    \/ GenerateNetdata
    \/ CreateIso
    \/ AttachIso
    \/ StartVm
    \/ MetadataVm
    \/ Delete
    \/ DeleteQcow2
    \/ DeleteIso
    \/ DeleteVolume
    \/ DeleteDirectory

Spec == Init /\ [][Next]_vars

-----------------------------------------------------------------------------
(* Claims about the lifecycle, checked under Spec *)

Last(seq) == seq[Len(seq)]

IsPrefix(s, t) == Len(s) <= Len(t) /\ s = SubSeq(t, 1, Len(s))

\* C1: batch isolation.  A failure of one machine, while its record is built or
\* in any step of its create/delete, is caught and logged, every later machine
\* of the batch is still processed, and executor does not raise.
C1_BatchIsolation ==
    /\ pc # "raised"
    /\ (pc = "idle" /\ runs > 0) => processed = DOMAIN conf

\* create is at the gate and the probe reports the name as defined
GateHit == pc = "create" /\ IsInstanceDefined(Self.name, defined)

\* C2: idempotency gate.  When create is invoked for a machine whose name the
\* instance probe reports as defined, create returns success at once: no disk
\* clone, define, ISO write, attach, start or metadata call is issued and the
\* files and the hypervisor stay as they were.
C2_IdempotencyGate ==
    [][GateHit =>
          /\ calls' = calls
          /\ steps' = steps
          /\ files' = files
          /\ <<defined, running, attached, metadata>>' = <<defined, running, attached, metadata>>
          /\ pc' = "loop"
          /\ Last(log') = <<"info", Self.name, "create", "successful">>]_vars

\* a create that returned at the gate
C2_GateReached ==
    /\ pc = "loop"
    /\ action = "create"
    /\ Len(log) >= 2
    /\ log[Len(log) - 1] = <<"info", Self.name, "already up and running">>
    /\ calls = <<>>

\* the order of the steps of create
CreateOrder ==
    <<"DiskReady", "DomainDefined", "NetConfigGenerated", "IsoBuilt", "IsoAttached",
      "Started", "MetadataSynced">>

\* the number of steps create has passed when control is at each step
StepsPassedAt ==
    [create_disk |-> 0, create_vm |-> 1, generate_netdata |-> 2, create_iso |-> 3,
     attach_iso |-> 4, start_vm |-> 5, metadata_vm |-> 6]

\* C3: create step ordering.  The steps a create run has passed are always an
\* initial part of disk ready, domain defined, guest network config generated,
\* ISO built, ISO attached, instance started, metadata synced: a step is entered
\* only after all the earlier ones succeeded, none is skipped or repeated, and
\* what each passed step produces is in place.
C3_StepOrder ==
    action = "create" =>
        /\ IsPrefix(steps, CreateOrder)
        /\ pc \in DOMAIN StepsPassedAt => Len(steps) = StepsPassedAt[pc]
        /\ Len(steps) >= 1 => Self.qcow2.path \in files
        /\ Len(steps) >= 2 => Self.name \in defined
        /\ Len(steps) >= 3 => domainxml[1]
        /\ Len(steps) >= 4 => Self.isoPath \in files
        /\ Len(steps) >= 5 => <<Self.name, Self.isoPath>> \in attached
        /\ Len(steps) >= 6 => Self.name \in running

\* a create run that passed every step
C3_AllStepsPassed == action = "create" /\ steps = CreateOrder /\ pc = "loop"

\* the Delete step issued the stop-then-undefine commands
CleanupIssued ==
    calls' = calls \o << <<"virsh destroy", Self.name>>, <<"virsh undefine", Self.name>> >>

\* C4 as stated: in delete the stop-then-undefine cleanup is issued exactly when
\* the existence query reports the domain as not defined (non-zero exit code).
C4_CleanupWhenNotDefined ==
    [][pc = "delete" =>
          ((DomainIsDefined(Self.name, defined) # 0) <=> CleanupIssued)]_vars

\* C4 amended: in delete the stop-then-undefine cleanup is issued exactly when
\* the existence query exits with zero, that is when the domain is defined, and
\* no hypervisor command is issued when it exits non-zero.
C4_CleanupWhenDefined ==
    [][pc = "delete" =>
          /\ (DomainIsDefined(Self.name, defined) = 0) <=> CleanupIssued
          /\ (DomainIsDefined(Self.name, defined) # 0) => calls' = calls]_vars

\* a delete that found the domain defined and undefined it
C4_CleanupReached ==
    /\ pc = "delete_qcow2"
    /\ calls = << <<"virsh destroy", Self.name>>, <<"virsh undefine", Self.name>> >>
    /\ steps = <<"cleanup">>
    /\ Self.name \notin defined

\* C5: delete without prior create.  For a machine on which create never ran
\* (no overlay disk, no ISO, no volume file, no working directory), delete logs
\* each absence and completes without raising.
C5_DeleteWithoutCreate ==
    (runs = 1 /\ action = "delete" /\ pc = "loop" /\ log # <<>>) =>
        (Last(log)[1] = "exception" => Last(log)[4] = "record")

\* the (network, hostname) pair of a compiled machine
MachinePair(settings) == <<Get(settings, "network", "default"), settings.hostname>>

\* the settings the compiler is to produce for machine i of the document
MergedVm(i) == Update(CommonSettings(config), config.vms[i])

\* C6: the compiled mapping has one entry per machine.  Any two machines of
\* `vms` with distinct (network, hostname) both appear in the mapping, and both
\* have been processed when executor returns.
C6_KeyedByName ==
    runs > 0 =>
        \A i, j \in DOMAIN config.vms :
            (i < j /\ MachinePair(MergedVm(i)) # MachinePair(MergedVm(j))) =>
                \E p, q \in DOMAIN conf :
                    /\ p # q
                    /\ MachinePair(conf[p][2]) = MachinePair(MergedVm(i))
                    /\ MachinePair(conf[q][2]) = MachinePair(MergedVm(j))
                    /\ pc = "idle" => {p, q} \subseteq processed

-----------------------------------------------------------------------------
(* The compile specification: documents with an imported common block, *)
(* overrides and shared nested values, run through executor on a host   *)
(* without backing disk                                                 *)

\* the objects of the parsed documents: 1 the local common userdata, 2 the local
\* common ssh_keys, 3 the imported common userdata, 4 the local common
\* nameservers, 4 + k the userdata that machine k declares itself
CompileObjects ==
    << [timezone |-> "UTC"], <<"key1">>, [timezone |-> "CET", locale |-> "C"], <<"ns1">> >>
    \o [k \in 1..MaxVms |-> [packages |-> ToString(k)]]

CompileBase ==
    [variant |-> "debian", directory |-> "d", backingdisk |-> "base", size |-> 10,
     ssh_keys |-> 2, nameservers |-> 4]

CompileCommons ==
    {Update(CompileBase, Update(c, u)) :
        c \in {EmptyDict, [cpu |-> 2]}, u \in {EmptyDict, [userdata |-> 1]}}

CompileImports == {[common |-> [cpu |-> 1, mem |-> 256, userdata |-> 3]]}

HostNames == <<"a", "b", "c", "e", "f">>

\* machine k: its cpu or none, and no userdata, its own userdata, or the very
\* object of the common block (a YAML alias)
CompileVm(k) ==
    {Update([hostname |-> HostNames[k]], Update(c, u)) :
        c \in {EmptyDict, [cpu |-> 4]},
        u \in {EmptyDict, [userdata |-> 4 + k], [userdata |-> 1]}}

CompileVmLists ==
    UNION {{v \in [1..n -> UNION {CompileVm(k) : k \in 1..n}] :
               \A k \in 1..n : v[k] \in CompileVm(k)} : n \in 1..MaxVms}

CompileConfigs ==
    {[common |-> c, vms |-> v] : c \in CompileCommons, v \in CompileVmLists}
    \cup {[common |-> c, vms |-> v, import_common |-> i] :
             c \in CompileCommons, v \in CompileVmLists, i \in CompileImports}

InitCompile ==
    /\ config \in CompileConfigs
    /\ docHeap = CompileObjects
    /\ created = {}
    /\ conf = <<>>
    /\ action = "create"
    /\ idx = 1
    /\ vm = <<>>
    /\ pc = "idle"
    /\ runs = 0
    /\ dirs = {}
    /\ files = {}
    /\ defined = {}
    /\ running = {}
    /\ attached = {}
    /\ metadata = {}
    /\ domainxml = <<>>
    /\ volIdx = 1
    /\ volIncr = 1
    /\ steps = <<>>
    /\ calls = <<>>
    /\ log = <<>>
    /\ processed = {}
    /\ heap = <<>>
    /\ in1 = <<>>
    /\ in2 = <<>>
    /\ out = <<>>

NextCompile ==
    \/ \E a \in {"create", "delete"} : Executor(a)
    \/ Construct
    \/ ExecutorReturn
    \/ Create
    \/ CreateDisk
    \/ Delete
    \/ DeleteQcow2
    \/ DeleteIso
    \/ DeleteDirectory

SpecCompile == InitCompile /\ [][NextCompile]_vars

-----------------------------------------------------------------------------
(* Claims about the compiler, checked under SpecCompile *)

\* the value of key k of dict d: the object's content for a reference
Value(d, k, h) == IF k \in Range(RefKeys) THEN h[d[k]] ELSE d[k]

LocalCommon == Get(config, "common", EmptyDict)

ImportedCommon ==
    IF "import_common" \in DOMAIN config
    THEN Get(config.import_common, "common", EmptyDict)
    ELSE EmptyDict

\* executor has just compiled the document
JustCompiled == pc = "loop" /\ idx = 1 /\ vm = <<>> /\ processed = {}

\* C8: merge precedence.  For every top-level key the compiled settings of a
\* machine hold the value of the per-machine map if it has the key, else of the
\* local common block if it has it, else of the imported common block; the
\* per-machine value replaces the common value whole.
C8_MergePrecedence ==
    JustCompiled =>
        \A p \in DOMAIN conf :
            LET v == config.vms[p]
                s == conf[p][2]
            IN /\ conf[p][1] = v.hostname
               /\ DOMAIN s = DOMAIN v \cup DOMAIN LocalCommon \cup DOMAIN ImportedCommon
               /\ \A k \in DOMAIN s :
                     Value(s, k, heap) =
                        IF k \in DOMAIN v THEN Value(v, k, docHeap)
                        ELSE IF k \in DOMAIN LocalCommon THEN Value(LocalCommon, k, docHeap)
                        ELSE Value(ImportedCommon, k, docHeap)

\* a document with cpu in all three places: machine 1 overrides it, machine 2 takes
\* the local common value, and mem comes from the imported block
C8_ThreeLevels ==
    /\ JustCompiled
    /\ Len(conf) >= 2
    /\ "cpu" \in DOMAIN ImportedCommon /\ "cpu" \in DOMAIN LocalCommon
    /\ "cpu" \in DOMAIN config.vms[1] /\ "cpu" \notin DOMAIN config.vms[2]
    /\ "userdata" \in DOMAIN LocalCommon
    /\ "userdata" \in DOMAIN config.vms[1] /\ config.vms[1].userdata = 5
    /\ conf[1][2].cpu = 4 /\ conf[2][2].cpu = 2 /\ conf[2][2].mem = 256
    /\ heap[conf[1][2].userdata] = [packages |-> "1"]

\* the objects reachable from a settings dict
Reach(s, h) ==
    LET top == {s[k] : k \in Range(RefKeys) \cap DOMAIN s}
        ud  == IF "userdata" \in DOMAIN s THEN h[s.userdata] ELSE EmptyDict
        mid == {ud[k] : k \in {"ssh_authorized_keys", "resolv_conf"} \cap DOMAIN ud}
        rc  == IF "resolv_conf" \in DOMAIN ud THEN h[ud.resolv_conf] ELSE EmptyDict
        low == {rc[k] : k \in {"nameservers", "searchdomains"} \cap DOMAIN rc}
    IN top \cup mid \cup low

\* a settings dict with everything it reaches
View(s, h) == <<s, [o \in Reach(s, h) |-> h[o]]>>

\* the references a dict of the document holds
Refs(d) == {d[k] : k \in Range(RefKeys) \cap DOMAIN d}

\* machine p declares a nested value that is the very object of the common
\* block or of another machine's map, so it is not derived from the common block
Aliased(p) ==
    \E o \in Refs(config.vms[p]) :
        \/ o \in Refs(LocalCommon) \cup Refs(ImportedCommon)
        \/ \E q \in DOMAIN config.vms \ {p} : o \in Refs(config.vms[q])

\* machine p shares no object with another machine nor with the common block
NotShared(p, h) ==
    /\ \A q \in DOMAIN conf \ {p} : Reach(conf[p][2], h) \cap Reach(conf[q][2], h) = {}
    /\ Reach(conf[p][2], h) \cap Reach(CommonSettings(config), h) = {}

-----------------------------------------------------------------------------
(* The name specification: the names and paths of two machines *)

\* the characters of the network and host names
Chars == {"a", "_"}

RECURSIVE StringsOfLen(_)
StringsOfLen(n) ==
    IF n = 0 THEN {""} ELSE {t \o c : t \in StringsOfLen(n - 1), c \in Chars}

\* the non-empty names of at most MaxLen characters
Names == UNION {StringsOfLen(n) : n \in 1..MaxLen}

InitName ==
    /\ in1 \in Names \X Names
    /\ in2 \in Names \X Names
    /\ out = <<>>
    /\ pc = "name"
    /\ config = EmptyDict
    /\ docHeap = <<>>
    /\ created = {}
    /\ conf = <<>>
    /\ action = "create"
    /\ idx = 1
    /\ vm = <<>>
    /\ runs = 0
    /\ dirs = {}
    /\ files = {}
    /\ defined = {}
    /\ running = {}
    /\ attached = {}
    /\ metadata = {}
    /\ domainxml = <<>>
    /\ volIdx = 1
    /\ volIncr = 1
    /\ steps = <<>>
    /\ calls = <<>>
    /\ log = <<>>
    /\ processed = {}
    /\ heap = <<>>

\* the records of the machines (network, hostname) in1 and in2, in one directory
BuildIdentities ==
    /\ pc = "name"
    /\ out' = <<RecordIdentity(in1[1], in1[2], "d"), RecordIdentity(in2[1], in2[2], "d")>>
    /\ pc' = "named"
    /\ UNCHANGED <<config, docHeap, created, conf, action, idx, vm, runs, fsVars, hvVars,
                   domainxml, loopVars, steps, calls, log, processed, heap, in1, in2>>

SpecName == InitName /\ [][BuildIdentities]_vars

\* C7: name injectivity.  Two machines with distinct (network, hostname) have
\* distinct names, and distinct overlay disk and ISO paths in one directory.
C7_NameInjective ==
    (pc = "named" /\ in1 # in2) =>
        /\ out[1].name # out[2].name
        /\ out[1].qcow2 # out[2].qcow2
        /\ out[1].iso # out[2].iso

-----------------------------------------------------------------------------
(* The volume specification: the volume paths of create and of delete *)

\* the volume declarations: no name, a name, an empty name, no name and a directory
VolumeChoices ==
    {[size |-> 10], [name |-> "data", size |-> 20], [name |-> "", size |-> 5],
     [size |-> 30, dir |-> "e"]}

InitVolumes ==
    /\ in1 \in SeqsUpTo(VolumeChoices, MaxVols)
    /\ in2 = <<>>
    /\ out = <<>>
    /\ pc = "volumes"
    /\ config = EmptyDict
    /\ docHeap = <<>>
    /\ created = {}
    /\ conf = <<>>
    /\ action = "create"
    /\ idx = 1
    /\ vm = <<>>
    /\ runs = 0
    /\ dirs = {}
    /\ files = {}
    /\ defined = {}
    /\ running = {}
    /\ attached = {}
    /\ metadata = {}
    /\ domainxml = <<>>
    /\ volIdx = 1
    /\ volIncr = 1
    /\ steps = <<>>
    /\ calls = <<>>
    /\ log = <<>>
    /\ processed = {}
    /\ heap = <<>>

\* the paths create_vm passes to virt-install and the paths delete reconstructs
\* for the volume list in1 of machine default_a in directory d
ResolveVolumes ==
    /\ pc = "volumes"
    /\ out' = [create |-> CreateVolPaths(in1, "d", "default_a", 1),
               delete |-> DeleteVolPaths(in1, "d", "default_a", 1)]
    /\ pc' = "resolved"
    /\ UNCHANGED <<config, docHeap, created, conf, action, idx, vm, runs, fsVars, hvVars,
                   domainxml, loopVars, steps, calls, log, processed, heap, in1, in2>>

SpecVolumes == InitVolumes /\ [][ResolveVolumes]_vars

\* the number of volumes without a name among the first k
UnnamedUpTo(volumes, k) == Cardinality({i \in 1..k : "name" \notin DOMAIN volumes[i]})

\* C10: unnamed-volume naming.  The k-th volume without a name, counting only
\* the volumes without a name, gets the positional name <name>_disk<k>, so a
\* named volume consumes no number, and delete reconstructs for it the very
\* path create passed to the hypervisor.
C10_UnnamedVolumeNaming ==
    pc = "resolved" =>
        \A k \in DOMAIN in1 :
            "name" \notin DOMAIN in1[k] =>
                /\ out.create[k] =
                      VolPath(in1[k], "d", "default_a_disk" \o ToString(UnnamedUpTo(in1, k)))
                /\ out.delete[k] = <<out.create[k]>>

-----------------------------------------------------------------------------
(* Claims on record construction and on the steps of create and delete,
   checked under Spec *)

\* the fields section 6 of the specification marks as required
SpecRequiredKeys == {"hostname", "variant", "directory", "backingdisk"}

\* the machine whose record executor tried to build last
Attempted == IF pc = "loop" THEN idx - 1 ELSE idx

\* the last record construction failed: executor raised, or logged the failure
\* under the previous machine's name
ConstructFailed ==
    \/ pc = "raised"
    \/ pc = "loop" /\ log # <<>> /\ Last(log)[1] = "exception" /\ Last(log)[4] = "record"

\* C11: a machine whose settings hold hostname, variant, directory and
\* backingdisk, on a network that reports a DNS domain, gets its record built:
\* leaving out `size` (or any other optional field) never fails the construction.
C11_OptionalFields ==
    ConstructFailed =>
        LET settings == conf[Attempted][2] IN
        \/ ~(SpecRequiredKeys \subseteq DOMAIN settings)
        \/ ~GetNet(Get(settings, "network", "default")).ok

\* the steps of create from disk creation to start
FallibleSteps ==
    {"create_disk", "create_vm", "generate_netdata", "create_iso", "attach_iso", "start_vm"}

\* the step at control fails in this transition: its precondition does not hold,
\* or its product is not there afterwards
StepFails ==
    CASE pc = "create_disk"      -> Self.qcow2.bdisk \notin files \/ Self.qcow2.path \notin files'
      [] pc = "create_vm"        -> Self.name \notin defined'
      [] pc = "generate_netdata" -> ~domainxml[1]
      [] pc = "create_iso"       -> Self.isoPath \notin files'
      [] pc = "attach_iso"       -> <<Self.name, Self.isoPath>> \notin attached'
      [] pc = "start_vm"         -> Self.name \notin running'
      [] OTHER                   -> FALSE

\* the operation ends here as failed, with no further step passed
Aborts ==
    /\ pc' = "loop"
    /\ idx' = idx + 1
    /\ steps' = steps
    /\ Last(log')[1] = "exception" /\ Last(log')[2] = Self.name /\ Last(log')[3] = "create"

\* nothing of what is on the host is taken away
NothingUndone ==
    /\ dirs \subseteq dirs'
    /\ files \subseteq files'
    /\ defined \subseteq defined'
    /\ attached \subseteq attached'
    /\ running \subseteq running'

\* C12: when a step of create from disk creation to start fails, create ends
\* there as failed, so no later step is performed, and nothing the earlier steps
\* produced (overlay, defined domain, ISO, attachment) is undone.
C12_AbortWithoutRollback ==
    [][(action = "create" /\ pc \in FallibleSteps /\ StepFails)
          => (Aborts /\ NothingUndone)]_vars

\* create failed at the attach step and the overlay, the domain and the ISO remain
C12_FailedAtAttach ==
    /\ action = "create" /\ pc = "loop" /\ vm # <<>>
    /\ steps = <<"DiskReady", "DomainDefined", "NetConfigGenerated", "IsoBuilt">>
    /\ log # <<>> /\ Last(log)[1] = "exception"
    /\ Self.qcow2.path \in files /\ Self.isoPath \in files
    /\ Self.name \in defined /\ Self.name \notin running
    /\ \A a \in attached : a[1] # Self.name

\* C14: the metadata-sync step never fails create: whether the metadata command
\* succeeds or not, create returns after it and executor reports the create of
\* the started instance as successful.
C14_MetadataBestEffort ==
    [][pc = "metadata_vm" =>
          /\ pc' = "loop"
          /\ idx' = idx + 1
          /\ Last(log') = <<"info", Self.name, "create", "successful">>
          /\ Self.name \in running'
          /\ NothingUndone]_vars

\* create was reported successful although the metadata command failed
C14_MetadataFailed ==
    /\ action = "create" /\ pc = "loop" /\ vm # <<>>
    /\ Len(log) >= 2
    /\ Last(log) = <<"info", Self.name, "create", "successful">>
    /\ log[Len(log) - 1] = <<"warning", Self.name, "metadata not saved">>
    /\ Self.name \in running
    /\ Self.name \notin metadata

\* C15: in delete a failing stop command is ignored and the undefine command is
\* still issued, and a failing undefine does not raise: whenever delete issues
\* the cleanup it goes on to the removal of the overlay, the ISO and the volumes.
C15_CleanupNonFatal ==
    [][(pc = "delete" /\ calls' # calls) =>
          /\ calls' = calls \o << <<"virsh destroy", Self.name>>,
                                   <<"virsh undefine", Self.name>> >>
          /\ pc' = "delete_qcow2"]_vars

\* no file is left on the host but the backing disk, which lies outside the
\* working directories: every working directory is empty
NoFileLeft == files \subseteq {"base"}

\* C16: at the end of a delete that did not fail, the working directory is
\* removed if and only if it is empty; a non-empty directory is left in place.
C16_DirectoryRemovedIffEmpty ==
    (/\ action = "delete" /\ pc = "loop" /\ vm # <<>>
     /\ log # <<>> /\ Last(log) = <<"info", Self.name, "delete", "successful">>)
        => /\ NoFileLeft => Self.directory \notin dirs
           /\ Self.directory \notin dirs => NoFileLeft

\* the path delete is about to remove, <<>> when the step at control removes none
PathAtControl ==
    CASE pc = "delete_qcow2" -> <<Self.qcow2.path>>
      [] pc = "delete_iso"   -> <<Self.isoPath>>
      [] pc = "delete_volumes" /\ volIdx <= Len(Self.volumes) ->
            IF DeleteUnnamed(Self.volumes[volIdx])
            THEN <<VolPath(Self.volumes[volIdx], Self.directory,
                           PositionalName(Self.name, volIncr))>>
            ELSE <<>>
      [] OTHER -> <<>>

\* C17: in delete, a removal of the overlay, the ISO or an unnamed volume that
\* fails ends delete there as failed, so no remaining removal is attempted;
\* a file that is merely absent is passed over and delete goes on.
C17_RemovalFailureFatal ==
    [][(action = "delete" /\ vm # <<>> /\ PathAtControl # <<>>) =>
          LET path == PathAtControl[1] IN
          /\ (path \in files /\ path \in files')
                => /\ pc' = "loop" /\ idx' = idx + 1
                   /\ Last(log') = <<"exception", Self.name, "delete", "OSError">>
                   /\ calls' = Append(calls, <<"os.remove", path>>)
                   /\ files' = files /\ dirs' = dirs
          /\ path \notin files
                => /\ pc' \in {"delete_iso", "delete_volumes"}
                   /\ Last(log') = <<"info", Self.name, "does not exist", path>>
                   /\ calls' = calls /\ files' = files]_vars

\* delete failed on the removal of the overlay and the ISO is still there
C17_OverlayRemovalFailed ==
    /\ action = "delete" /\ pc = "loop" /\ vm # <<>>
    /\ log # <<>> /\ Last(log) = <<"exception", Self.name, "delete", "OSError">>
    /\ calls # <<>> /\ Last(calls) = <<"os.remove", Self.qcow2.path>>
    /\ Self.qcow2.path \in files
    /\ Self.isoPath \in files

\* C18: when the domain XML holds no hardware address, generate_netdata fails
\* with NoMacAddressFound and create ends there, after the domain was defined
\* and before the ISO is built, attached or the instance started; when it holds
\* one, the network-config is the fixed DHCP configuration whatever the address.
C18_MissingMacAborts ==
    [][pc = "generate_netdata" =>
          /\ Self.name \in defined
          /\ steps = <<"DiskReady", "DomainDefined">>
          /\ calls' = calls /\ files' = files
          /\ defined' = defined /\ attached' = attached /\ running' = running
          /\ IF domainxml = <<FALSE>>
             THEN Aborts /\ Last(log')[4] = "NoMacAddressException"
             ELSE /\ domainxml[2] \in MacAddresses \ {""}
                  /\ pc' = "create_iso"
                  /\ vm'[1].netdata = [version |-> 2, ethernets |-> [eno1 |-> [dhcp4 |-> TRUE]]]
                  /\ vm'[1].name = Self.name]_vars

\* create ended for the missing hardware address, the domain defined and not started
C18_NoMacFound ==
    /\ action = "create" /\ pc = "loop" /\ vm # <<>>
    /\ log # <<>> /\ Last(log) = <<"exception", Self.name, "create", "NoMacAddressException">>
    /\ steps = <<"DiskReady", "DomainDefined">>
    /\ Self.name \in defined /\ Self.name \notin running

\* the DNS domain the libvirt network definition holds, <<>> when the network is
\* unknown or its definition names no domain
ReportedDomain(network) ==
    IF network \notin DOMAIN LibvirtNetworks THEN <<>>
    ELSE IF LibvirtNetworks[network] = <<>> THEN <<>>
    ELSE IF "name" \notin DOMAIN LibvirtNetworks[network][1] THEN <<>>
    ELSE <<LibvirtNetworks[network][1].name>>

\* C19: when executor builds the record of a machine that has the fields the
\* constructor reads, the record's DNS domain is the one the network lookup
\* reports, never the configured `domain` or `.local`, and its fqdn is
\* hostname.domain; when the network reports no domain no record is built and
\* the machine fails.
C19_DomainFromNetwork ==
    [][(pc = "loop" /\ idx <= Len(conf) /\ RequiredKeys \subseteq DOMAIN conf[idx][2]) =>
          LET settings == conf[idx][2]
              reported == ReportedDomain(Get(settings, "network", "default"))
          IN IF reported = <<>>
             THEN /\ vm' = vm
                  /\ pc' \in {"raised", "loop"}
                  /\ pc' = "loop" => (idx' = idx + 1 /\ Last(log')[1] = "exception")
             ELSE /\ pc' = action
                  /\ vm'[1].hostname = settings.hostname
                  /\ vm'[1].domain = reported[1]
                  /\ vm'[1].fqdn = settings.hostname \o "." \o reported[1]]_vars

\* a record was built for a machine that configures a domain of its own
C19_ConfiguredDomainOverridden ==
    /\ pc \in {"create", "delete"} /\ vm # <<>>
    /\ "domain" \in DOMAIN conf[idx][2]
    /\ conf[idx][2].domain = "example.org"
    /\ Self.domain = "lab"
    /\ Self.fqdn = "a.lab"

\* control is inside create
CreatePcs == {"create", "metadata_vm"} \cup FallibleSteps

\* the machine at control was defined before this create was invoked
DefinedBefore == Self.name \in defined /\ "DomainDefined" \notin Range(steps)

\* the attachments of domain n
AttachedTo(n, att) == {a \in att : a[1] = n}

\* C20: once a machine's domain is defined, every later create of it stops at
\* the gate: the only step such a create takes is the gate's return, reported
\* as successful, and it builds no ISO, attaches nothing and starts nothing, so
\* a machine left partial by a failed create stays partial under further creates.
C20_PartialNeverCompleted ==
    [][(action = "create" /\ vm # <<>> /\ pc \in CreatePcs) =>
          /\ DefinedBefore =>
                /\ pc = "create"
                /\ pc' = "loop"
                /\ Last(log') = <<"info", Self.name, "create", "successful">>
                /\ calls' = calls /\ files' = files
          /\ \A n \in defined :
                (n # Self.name \/ DefinedBefore) =>
                    /\ n \in running' <=> n \in running
                    /\ AttachedTo(n, attached') = AttachedTo(n, attached)
                    /\ n \in defined']_vars

\* a second create of a machine that is defined, without ISO and not running,
\* returned at the gate and was reported successful
C20_PartialReportedSuccessful ==
    /\ runs = 2 /\ action = "create" /\ pc = "loop" /\ vm # <<>>
    /\ Len(log) >= 2
    /\ Last(log) = <<"info", Self.name, "create", "successful">>
    /\ log[Len(log) - 1] = <<"info", Self.name, "already up and running">>
    /\ Self.name \in defined
    /\ Self.name \notin running
    /\ Self.isoPath \notin files
    /\ AttachedTo(Self.name, attached) = {}

\* the delete of a machine ended as successful, and the run before it was a
\* create run that took this machine through every step
RoundTripDone ==
    /\ action = "delete" /\ pc = "loop" /\ vm # <<>>
    /\ log # <<>> /\ Last(log) = <<"info", Self.name, "delete", "successful">>
    /\ Self.name \in created

\* the --disk paths create_vm passed for the extra volumes of the record
OwnVolPaths == CreateVolPaths(Self.volumes, Self.directory, Self.name, 1)

\* every path a machine may own under a positional name
PositionalPaths ==
    {VolPath(Self.volumes[k], Self.directory, PositionalName(Self.name, n)) :
        k \in DOMAIN Self.volumes, n \in 1..Len(Self.volumes)}

\* C21: after a create that passed every step and a following delete of the same
\* machine that did not fail, the domain is not defined and the overlay, the ISO
\* and the file of every extra volume without a name are gone, while the files
\* of volumes with a name (vol_ prefix) are still there; and no step of a delete
\* removes a file other than the machine's overlay, ISO and positional volumes.
C21_CreateDeleteRoundTrip ==
    /\ [](RoundTripDone =>
            /\ Self.name \notin defined
            /\ Self.qcow2.path \notin files
            /\ Self.isoPath \notin files
            /\ \A k \in DOMAIN Self.volumes :
                  IF "name" \notin DOMAIN Self.volumes[k]
                  THEN OwnVolPaths[k] \notin files
                  ELSE Self.volumes[k].name # "" => OwnVolPaths[k] \in files)
    /\ [][(action = "delete" /\ vm # <<>>) =>
            (files \ files') \subseteq ({Self.qcow2.path, Self.isoPath} \cup PositionalPaths)]_vars

-----------------------------------------------------------------------------
(* The lifecycle on a host that holds files of an earlier provisioning: the
   overlay of machine default_a may be there with or without the backing disk *)

InitLeftover ==
    /\ config \in {c \in LifecycleConfigs : "size" \in DOMAIN c.common}
    /\ docHeap = << [timezone |-> "UTC"] >>
    /\ created = {}
    /\ conf = <<>>
    /\ action = "create"
    /\ idx = 1
    /\ vm = <<>>
    /\ pc = "idle"
    /\ runs = 0
    /\ dirs = {"d"}
    /\ files \in SUBSET {"base", Qcow2Path("d", MachineName("default", "a"))}
    /\ defined = {}
    /\ running = {}
    /\ attached = {}
    /\ metadata = {}
    /\ domainxml = <<>>
    /\ volIdx = 1
    /\ volIncr = 1
    /\ steps = <<>>
    /\ calls = <<>>
    /\ log = <<>>
    /\ processed = {}
    /\ heap = <<>>
    /\ in1 = <<>>
    /\ in2 = <<>>
    /\ out = <<>>

SpecLeftover == InitLeftover /\ [][Next]_vars

\* the clone command create_disk issues for the record
CloneCall ==
    <<"qemu-img create", Self.qcow2.bdisk, Self.qcow2.path,
      IF Self.qcow2.size # 0 THEN <<Self.qcow2.size>> ELSE <<>> >>

\* create_disk goes through without a command and without touching a file
DiskStepSkips == pc' = "create_vm" /\ calls' = calls /\ files' = files

\* create_disk fails for the missing backing disk, without a command
BackingDiskMissing ==
    /\ Aborts /\ Last(log')[4] = "BackingDiskException"
    /\ calls' = calls /\ files' = files

\* C13 as stated: an existing overlay makes create_disk succeed without cloning
\* whatever the backing disk; a missing backing disk fails the step only when
\* the overlay is absent; the clone is issued only with the overlay absent and
\* the backing disk present.
C13_OverlayShortCircuit ==
    [][pc = "create_disk" =>
          /\ Self.qcow2.path \in files => DiskStepSkips
          /\ (Self.qcow2.path \notin files /\ Self.qcow2.bdisk \notin files)
                => BackingDiskMissing
          /\ calls' # calls
                => (Self.qcow2.path \notin files /\ Self.qcow2.bdisk \in files)]_vars

\* C13 amended: a missing backing disk fails create_disk with BackingDiskMissing
\* whether or not the overlay exists; with the backing disk present an existing
\* overlay makes the step succeed without cloning; the clone is issued only with
\* the backing disk present and the overlay absent.
C13_BackingDiskFirst ==
    [][pc = "create_disk" =>
          /\ Self.qcow2.bdisk \notin files => BackingDiskMissing
          /\ (Self.qcow2.bdisk \in files /\ Self.qcow2.path \in files) => DiskStepSkips
          /\ calls' # calls
                => /\ Self.qcow2.path \notin files /\ Self.qcow2.bdisk \in files
                   /\ calls' = Append(calls, CloneCall)]_vars

\* create_disk failed for the missing backing disk while the overlay is there
C13_OverlayWithoutBackingDisk ==
    /\ action = "create" /\ pc = "loop" /\ vm # <<>>
    /\ log # <<>> /\ Last(log) = <<"exception", Self.name, "create", "BackingDiskException">>
    /\ Self.qcow2.path \in files
    /\ Self.qcow2.bdisk \notin files

-----------------------------------------------------------------------------
(* The lifecycle over documents whose machines sit on every kind of network:
   with a domain, without a <domain> element, with a <domain> element that has
   no name, and unknown to libvirt *)

NetworkVms ==
    {[hostname |-> "a", volumes |-> <<[size |-> 10]>>],
     [hostname |-> "b", network |-> "nodom"],
     [hostname |-> "c", network |-> "anon"],
     [hostname |-> "e", network |-> "ghost"]}

NetworkConfigs ==
    {[common |-> [variant |-> "debian", directory |-> "d", backingdisk |-> "base",
                  userdata |-> 1, size |-> 10],
      vms |-> v] : v \in SeqsUpTo(NetworkVms, MaxVms)}

InitNetwork ==
    /\ config \in NetworkConfigs
    /\ docHeap = << [timezone |-> "UTC"] >>
    /\ created = {}
    /\ conf = <<>>
    /\ action = "create"
    /\ idx = 1
    /\ vm = <<>>
    /\ pc = "idle"
    /\ runs = 0
    /\ dirs = {}
    /\ files = {"base"}
    /\ defined = {}
    /\ running = {}
    /\ attached = {}
    /\ metadata = {}
    /\ domainxml = <<>>
    /\ volIdx = 1
    /\ volIncr = 1
    /\ steps = <<>>
    /\ calls = <<>>
    /\ log = <<>>
    /\ processed = {}
    /\ heap = <<>>
    /\ in1 = <<>>
    /\ in2 = <<>>
    /\ out = <<>>

SpecNetwork == InitNetwork /\ [][Next]_vars

\* the step changes the host or issues a command
HostTouched ==
    \/ dirs' # dirs \/ files' # files
    \/ defined' # defined \/ running' # running
    \/ attached' # attached \/ metadata' # metadata
    \/ Len(calls') > Len(calls)

\* the network of the machine the loop of executor is at
NetworkAt(i) == Get(conf[i][2], "network", "default")

\* C22: the network lookup runs while the record is built, before the first
\* step of create and of delete: every step that changes the host or issues a
\* command belongs to the operation of the machine the loop is at, whose network
\* reports a domain; for a machine whose network is unknown or reports no domain
\* the construction ends the machine without an operation and with the host
\* (directories, files, domains, attachments) unchanged.
C22_LookupBeforeSteps ==
    [][/\ HostTouched =>
            /\ pc \notin {"idle", "raised", "loop"}
            /\ idx <= Len(conf)
            /\ ReportedDomain(NetworkAt(idx)) # <<>>
            /\ Self.name = MachineName(NetworkAt(idx), conf[idx][2].hostname)
       /\ (pc = "loop" /\ idx <= Len(conf) /\ ReportedDomain(NetworkAt(idx)) = <<>>) =>
            /\ pc' \in {"loop", "raised"}
            /\ vm' = vm
            /\ ~HostTouched]_vars

\* in a delete run over a host that holds a machine, the record of a machine on
\* the unknown network could not be built
C22_UnknownNetworkFailed ==
    /\ action = "delete" /\ ConstructFailed
    /\ NetworkAt(Attempted) = "ghost"
    /\ defined # {} /\ files # {"base"} /\ dirs # {}

=============================================================================
